---------------------------- MODULE Spec2Model ----------------------------
(***************************************************************************)
(* The EPL injury / performance pipeline as a state machine:               *)
(*   merge.py               match log  x  injury records  -> merged        *)
(*   feature_engineering.py merged -> fe (rolling features, event_period)  *)
(*   stats_analysis.py      fe -> matches, episodes -> episode_level rows  *)
(*   dashboard_app.py       fe -> the per-90 tables of its three charts    *)
(* Tables are sequences of records; a date is a day number, NaT is 0.      *)
(***************************************************************************)
EXTENDS Integers, Sequences, FiniteSets, TLC

VARIABLES matchlog, injuries, schema, merged, fe, matches, episodes, ep_i, pre, post, rows,
          dash, selection, raised, pc

vars == <<matchlog, injuries, schema, merged, fe, matches, episodes, ep_i, pre, post, rows,
          dash, selection, raised, pc>>

(***************************************************************************)
(* Bounds of the input family and program constants                        *)
(***************************************************************************)
MaxDate == 8

\* the chunk sizes tried go up to MaxChunk, next to the default
MaxChunk == 3

NaT == 0

NaN == "NaN"

WIN_PRE == 5

WIN_POST == 5

ROLL_WINDOW == 5

MIN_PERIODS == 1

Dates == 1..MaxDate

DatesOrNaT == 0..MaxDate

\* pd.isna / pd.notna of a parsed date
isna(v) == v = NaT

notna(v) == ~isna(v)

Min(x, y) == IF x <= y THEN x ELSE y

Max(x, y) == IF x >= y THEN x ELSE y

(***************************************************************************)
(* Generic table helpers (pandas semantics)                                *)
(***************************************************************************)
RECURSIVE Concat(_)
Concat(ss) == IF ss = <<>> THEN <<>> ELSE Head(ss) \o Concat(Tail(ss))

RECURSIVE SumSeq(_)
SumSeq(s) == IF s = <<>> THEN 0 ELSE Head(s) + SumSeq(Tail(s))

\* sort_values on several columns: a stable sort on the combined key
\* (t \o <<>> is the table t, written out row by row)
StableSortByKey(s, keys) ==
    LET n == Len(s)
        pos == [i \in 1..n |->
                  Cardinality({j \in 1..n : keys[j] < keys[i] \/ (keys[j] = keys[i] /\ j < i)}) + 1]
    IN  [k \in 1..n |-> s[CHOOSE i \in 1..n : pos[i] = k]] \o <<>>

\* drop_duplicates(keep='first'): keys[i] is what row i is compared on
DropDuplicatesBy(s, keys) ==
    LET keepAt(i) == \A j \in 1..(i - 1) : keys[j] # keys[i]
        idxs == {i \in 1..Len(s) : keepAt(i)}
        nth(k) == CHOOSE i \in idxs : Cardinality({j \in idxs : j < i}) = k - 1
    IN  [k \in 1..Cardinality(idxs) |-> s[nth(k)]]

\* .tail(n) and .head(n)
TailN(s, n) == SubSeq(s, Max(1, Len(s) - n + 1), Len(s))

HeadN(s, n) == SubSeq(s, 1, Min(n, Len(s)))

\* exact fractions, in lowest terms with a positive denominator; a missing
\* number (float NaN) is 0/0
NaNF == [num |-> 0, den |-> 0]

RECURSIVE GCD(_, _)
GCD(x, y) == IF y = 0 THEN x ELSE GCD(y, x % y)

Abs(x) == IF x < 0 THEN -x ELSE x

Frac(n, d) == LET g == GCD(Abs(n), d) IN [num |-> n \div g, den |-> d \div g]

FracAdd(x, y) == Frac(x.num * y.den + y.num * x.den, x.den * y.den)

FracSub(x, y) == Frac(x.num * y.den - y.num * x.den, x.den * y.den)

\* float infinities, as a division by 0.0 gives them
PosInf == [num |-> 1, den |-> 0]

NegInf == [num |-> -1, den |-> 0]

\* float division n / d of two whole numbers: x / 0 is +-inf, 0 / 0 is NaN
FloatDiv(n, d) ==
    IF d = 0 THEN (IF n > 0 THEN PosInf ELSE IF n < 0 THEN NegInf ELSE NaNF)
    ELSE IF d < 0 THEN Frac(-n, -d) ELSE Frac(n, d)

\* Series.mean(): missing values are skipped; NaN when nothing is left
RECURSIVE FracSum(_)
FracSum(s) == IF s = <<>> THEN Frac(0, 1) ELSE FracAdd(Head(s), FracSum(Tail(s)))

\* MeanSkipNa with a missing value counted as a match with rate 0
MeanSkipNa_zero_filled(vals) ==
    IF Len(vals) = 0 THEN NaNF
    ELSE LET sum == FracSum(SelectSeq(vals, LAMBDA v : v # NaNF))
         IN  Frac(sum.num, sum.den * Len(vals))

MeanSkipNa(vals) ==
    LET present == SelectSeq(vals, LAMBDA v : v # NaNF)
        total == FracSum(present)
    IN  IF present = <<>> THEN NaNF ELSE Frac(total.num, total.den * Len(present))


(***************************************************************************)
(* Player names: str.lower().str.strip() on the names that occur           *)
(***************************************************************************)
NameClean(raw) == IF raw \in {"a", " A"} THEN "a" ELSE "b"

\* the order sort_values puts the clean names in
NameRank(p) == IF p = "a" THEN 1 ELSE 2


(***************************************************************************)
(* The input family: the two cleaned CSV files merge.py reads              *)
(***************************************************************************)
\* the ascending sequence of a set of day numbers
SeqOfSet(S) == [k \in 1..Cardinality(S) |-> CHOOSE d \in S : Cardinality({e \in S : e < d}) = k - 1]

Reverse(s) == [k \in 1..Len(s) |-> s[Len(s) + 1 - k]]

\* a number cell of a CSV file: a whole number n is n/1, an empty or
\* unparseable cell is NaN. Player a has matches without minutes played;
\* player b has a negative entry on day 2 and no entry at all on day 5
MinutesOf(raw, d) ==
    IF NameClean(raw) = "a" THEN Frac(((d * 7) % 4) * 30, 1)
    ELSE IF d = 2 THEN Frac(-10, 1)
    ELSE IF d = 5 THEN NaNF
    ELSE Frac(10 * d, 1)

GoalsOf(raw, d) == IF NameClean(raw) = "a" THEN Frac(d % 2, 1) ELSE Frac(d \div 5, 1)

AssistsOf(raw, d) == IF d % 3 = 0 THEN Frac(1, 1) ELSE Frac(0, 1)

\* the rating columns of the player summaries, when the files have them
RatingPreOf(raw, d) == IF NameClean(raw) = "a" THEN Frac(7, 1) ELSE Frac(6, 1)

RatingPostOf(raw, d) == Frac(4 + 2 * (d % 2), 1)

\* the two clubs of a match
HomeTeamOf(raw, d) == IF d % 2 = 0 THEN "x" ELSE "y"

AwayTeamOf(raw, d) == IF d % 3 = 0 THEN "z" ELSE IF d % 2 = 0 THEN "y" ELSE "x"

PositionOf(raw, d, posMode) ==
    IF NameClean(raw) = "b" THEN "DF"
    ELSE IF posMode = "varies" /\ d >= 5 THEN "MF/FW" ELSE "FW"

MatchRow(raw, d, posMode) ==
    [player_name |-> raw, date |-> d, minutes_played |-> MinutesOf(raw, d),
     goals |-> GoalsOf(raw, d), assists |-> AssistsOf(raw, d),
     avg_rating_pre_injury |-> RatingPreOf(raw, d),
     avg_rating_post_injury |-> RatingPostOf(raw, d),
     home_team_clean |-> HomeTeamOf(raw, d), away_team_clean |-> AwayTeamOf(raw, d),
     position_type |-> PositionOf(raw, d, posMode)]

MatchRowsOf(raw, S, posMode) == [k \in 1..Cardinality(S) |-> MatchRow(raw, SeqOfSet(S)[k], posMode)]

\* the row orders a match log file may come in
Arrange(s, order) ==
    LET byDate == StableSortByKey(s, [k \in 1..Len(s) |-> s[k].date])
    IN  CASE order = "by_player" -> s
          [] order = "by_date" -> byDate
          [] order = "reverse" -> Reverse(byDate)

\* player a plays on every day, or on every day but one; player b on days 2
\* and 5 with one more row that lacks its date, or not at all
ADateSets == {Dates, Dates \ {3}, Dates \ {6}}

BDateSets == {{}, {NaT, 2, 5}}

\* the file orders and position columns tried together
Layouts == {<<"by_player", "const">>, <<"by_date", "varies">>, <<"reverse", "varies">>}

MatchLogs ==
    {Arrange(MatchRowsOf("a", A, l[2]) \o MatchRowsOf("b", B, l[2]), l[1]) :
        A \in ADateSets, B \in BDateSets, l \in Layouts}

InjuryRow(raw, since, until) == [player_name |-> raw, injured_since |-> since, injured_until |-> until]

FirstInjuries == {<<>>} \cup {<<InjuryRow("a", s, u)>> : s \in DatesOrNaT, u \in DatesOrNaT}

SecondInjuries(first) ==
    {<<>>, <<InjuryRow(" A", 4, 5)>>, <<InjuryRow("b", 3, 4)>>}
      \cup (IF first = <<>> THEN {} ELSE {<<InjuryRow(" A", first[1].injured_since, first[1].injured_until)>>})

InjuryTables == UNION {{f \o s : s \in SecondInjuries(f)} : f \in FirstInjuries}

\* the columns of the files: "plain" has every column the scripts name but
\* the two rating columns, "ratings" has those too, the others lack one
\* column in the file one script reads
Schemas == {"plain", "ratings", "fe_no_date", "fe_no_player", "stats_no_date", "stats_no_player"}

\* the injury tables the other schemas are tried with
ProbeInjuries ==
    {<<>>, <<InjuryRow("a", 3, 6)>>, <<InjuryRow("a", 3, 6), InjuryRow("b", 3, 4)>>}

HasRatings(sch) == sch = "ratings"

(***************************************************************************)
(* merge.py                                                                *)
(***************************************************************************)
\* is_during_injury with the first day of the injury left out
is_during_injury_open_start(date, since, until) ==
    IF notna(since) /\ notna(until) THEN since < date /\ date <= until ELSE FALSE

\* lines 24-27
is_during_injury(date, since, until) ==
    IF notna(since) /\ notna(until) THEN since <= date /\ date <= until ELSE FALSE

JoinedRow(m, since, until) ==
    [player_name_clean |-> NameClean(m.player_name), player_name |-> m.player_name,
     date |-> m.date, minutes_played |-> m.minutes_played, goals |-> m.goals,
     assists |-> m.assists, avg_rating_pre_injury |-> m.avg_rating_pre_injury,
     avg_rating_post_injury |-> m.avg_rating_post_injury,
     home_team_clean |-> m.home_team_clean, away_team_clean |-> m.away_team_clean,
     position_type |-> m.position_type,
     injured_since |-> since, injured_until |-> until,
     is_during_injury |-> is_during_injury(m.date, since, until)]

\* line 21: pd.merge(how='left', on='player_name_clean'): every match row once per
\* injury record of its player, in the injury file's order; once, with missing
\* injury columns, when the player has none
JoinOne(m, inj) ==
    LET own == SelectSeq(inj, LAMBDA j : NameClean(j.player_name) = NameClean(m.player_name))
    IN  IF own = <<>> THEN <<JoinedRow(m, NaT, NaT)>>
        ELSE [k \in 1..Len(own) |-> JoinedRow(m, own[k].injured_since, own[k].injured_until)]

LeftMergeInjuries(ml, inj) ==
    LET joined == Concat([k \in 1..Len(ml) |-> JoinOne(ml[k], inj)])
    IN  [k \in 1..Len(joined) |-> [idx |-> k] @@ joined[k]] \o <<>>

Init ==
    /\ matchlog \in MatchLogs
    /\ injuries \in InjuryTables
    /\ schema \in (IF injuries \in ProbeInjuries THEN Schemas ELSE {"plain"})
    /\ merged = <<>>
    /\ fe = <<>>
    /\ matches = <<>>
    /\ episodes = <<>>
    /\ ep_i = 0
    /\ pre = <<>>
    /\ post = <<>>
    /\ rows = <<>>
    /\ dash = <<>>
    /\ selection = <<>>
    /\ raised = ""
    /\ pc = "merge"

Merge ==
    /\ pc = "merge"
    /\ merged' = LeftMergeInjuries(matchlog, injuries)
    /\ pc' = "feature_engineering"
    /\ UNCHANGED <<matchlog, injuries, schema, dash, selection, raised, fe, matches, episodes, ep_i, pre, post, rows>>

(***************************************************************************)
(* feature_engineering.py                                                  *)
(***************************************************************************)
\* the column a script cannot do without and the file of the schema lacks:
\* line 6, read_csv(parse_dates=[...]), raises for a missing date column;
\* line 36, sort_values, raises KeyError for a missing player_name_clean
FeatureMissingColumn(sch) ==
    IF sch = "fe_no_date" THEN "date"
    ELSE IF sch = "fe_no_player" THEN "player_name_clean"
    ELSE ""

\* DateFilter left out: the undated rows stay in the table
DateFilter_keep_all(df) == df

\* line 18: df_filtered[df_filtered['date'].notna()]
DateFilter(df) == SelectSeq(df, LAMBDA r : notna(r.date))

\* the calendar: day d is the first of a month, day 1 is 1 June 2021 and the
\* days are one month apart, so that the days span two seasons
DateYear(d) == 2021 + (d + 4) \div 12

DateMonth(d) == ((d + 4) % 12) + 1

\* a season "Y/Y+1" is the pair <<Y, Y + 1>>; a missing season
NaNSeason == <<>>

\* the season of a calendar month, with July counted to the new season
SeasonOf_july(year, month) ==
    IF month >= 7 THEN <<year, year + 1>> ELSE <<year - 1, year>>

\* lines 24-28
SeasonOf(year, month) ==
    IF month >= 8 THEN <<year, year + 1>> ELSE <<year - 1, year>>

\* lines 21-28
get_season(date) ==
    IF isna(date) THEN NaNSeason ELSE SeasonOf(DateYear(date), DateMonth(date))

\* lines 32-33: pd.to_numeric(errors='coerce').fillna(0) of a number cell
ToNumericFill0(cell) == IF cell = NaNF THEN 0 ELSE cell.num

\* lines 29-33 for one row
SeasonAndMinutes(r) ==
    [r EXCEPT !.minutes_played = ToNumericFill0(@)] @@ [season_epl |-> get_season(r.date)]

\* line 36: sort_values(['player_name_clean', 'date'])
PlayerDateKey(r) == NameRank(r.player_name_clean) * (MaxDate + 1) + r.date

\* SortByPlayerDate left out: the rows stay in file order
SortByPlayerDate_unsorted(df) == df

SortByPlayerDate(df) == StableSortByKey(df, [k \in 1..Len(df) |-> PlayerDateKey(df[k])] \o <<>>)

\* groupby('player_name_clean') then x.rolling(window=5, min_periods=1): going
\* back from position j, the positions of the last `need` rows of player p
RECURSIVE GroupTail(_, _, _, _)
GroupTail(df, p, j, need) ==
    IF j = 0 \/ need = 0 THEN <<>>
    ELSE IF df[j].player_name_clean = p THEN Append(GroupTail(df, p, j - 1, need - 1), j)
    ELSE GroupTail(df, p, j - 1, need)

\* RollingWindow over the rows before the anchor only, as after a shift(1)
RollingWindow_prior(df, i) == GroupTail(df, df[i].player_name_clean, i - 1, ROLL_WINDOW)

\* RollingWindow without the groupby: the last rows of the table, whoever played
RollingWindow_ungrouped(df, i) ==
    [n \in 1..Min(i, ROLL_WINDOW) |-> Max(1, i - ROLL_WINDOW + 1) + n - 1]

\* the window of the row at position i of df: positions in df, oldest first;
\* the window ends at the row itself
RollingWindow(df, i) == GroupTail(df, df[i].player_name_clean, i, ROLL_WINDOW)

\* .mean() of a window: NaN below min_periods
RollingMean(vals) ==
    IF Len(vals) < MIN_PERIODS THEN NaNF ELSE Frac(SumSeq(vals), Len(vals))

\* RollingStd as the population standard deviation (ddof = 0)
RollingStd_population(vals) ==
    LET n == Len(vals)
    IN  IF n < MIN_PERIODS THEN NaNF
        ELSE Frac(n * SumSeq([k \in 1..n |-> vals[k] * vals[k]]) - SumSeq(vals) * SumSeq(vals),
                  n * n)

\* .std() of a window: the sample standard deviation needs two values; kept as
\* its square, (n * sum(x^2) - sum(x)^2) / (n * (n - 1))
RollingStd(vals) ==
    LET n == Len(vals)
    IN  IF n < MIN_PERIODS \/ n < 2 THEN NaNF
        ELSE Frac(n * SumSeq([k \in 1..n |-> vals[k] * vals[k]]) - SumSeq(vals) * SumSeq(vals),
                  n * (n - 1))

\* get_event_period with the return day left out of the injury
get_event_period_open_end(row) ==
    IF isna(row.injured_since) \/ isna(row.injured_until) \/ isna(row.date) THEN NaN
    ELSE IF row.date < row.injured_since THEN "pre"
    ELSE IF row.injured_since <= row.date /\ row.date < row.injured_until THEN "during"
    ELSE "post"

\* lines 73-81
get_event_period(row) ==
    IF isna(row.injured_since) \/ isna(row.injured_until) \/ isna(row.date) THEN NaN
    ELSE IF row.date < row.injured_since THEN "pre"
    ELSE IF row.injured_since <= row.date /\ row.date <= row.injured_until THEN "during"
    ELSE "post"

\* lines 37-40, 50-53, 82 for the row at position i of the sorted table; window5
\* records which rows (by their idx) the two rolling statistics were taken over
Enrich(df, i) ==
    LET w == RollingWindow(df, i)
        vals == [n \in 1..Len(w) |-> df[w[n]].minutes_played]
    IN  df[i] @@ [window5 |-> [n \in 1..Len(w) |-> df[w[n]].idx],
                  minutes_workload_last5 |-> RollingMean(vals),
                  form_consistency_last5 |-> RollingStd(vals),
                  event_period |-> get_event_period(df[i])]

\* line 44: (injured_until - injured_since).dt.days, NaN without an injury
injury_days(r) ==
    IF isna(r.injured_since) \/ isna(r.injured_until) THEN NaNF
    ELSE Frac(r.injured_until - r.injured_since, 1)

\* line 45: groupby(['player_name_clean', 'season_epl'])['injury_days'].sum()
\* over the column days; sum() skips NaN
InjuryBurden(df, days, p, season) ==
    SumSeq([k \in 1..Len(df) |->
              IF df[k].player_name_clean = p /\ df[k].season_epl = season
              THEN ToNumericFill0(days[k]) ELSE 0])

\* lines 43-47: the burden table has one row per (player, season), so the left
\* merge adds a column and no row
WithInjuryBurden(df) ==
    LET days == [k \in 1..Len(df) |-> injury_days(df[k])] \o <<>>
    IN  [k \in 1..Len(df) |->
            df[k] @@ [injury_days |-> days[k],
                      injury_burden_days |->
                          InjuryBurden(df, days, df[k].player_name_clean, df[k].season_epl)]]
          \o <<>>

\* groupby iterates over the players in sorted order
PlayerOrder == <<"a", "b">>

\* lines 60-67 for the row at position i of a player's group
RecoveryEntry(group, i) ==
    LET row == group[i]
        post_injury == SelectSeq(group, LAMBDA r : r.date > row.injured_until)
        pre_avg == MeanSkipNa([k \in 1..Len(group) |-> group[k].avg_rating_pre_injury])
        recovered == SelectSeq(post_injury, LAMBDA r :
                         /\ r.avg_rating_post_injury # NaNF /\ pre_avg # NaNF
                         /\ r.avg_rating_post_injury.num * pre_avg.den
                                >= pre_avg.num * r.avg_rating_post_injury.den)
    IN  IF notna(row.injured_until) /\ post_injury # <<>>
        THEN <<[player_name_clean |-> row.player_name_clean, season_epl |-> row.season_epl,
                recovery_games |-> Len(HeadN(recovered, 1))]>>
        ELSE <<>>

\* lines 56-68: the list recovery_games; nothing is appended when the table has
\* no column avg_rating_pre_injury
RecoveryGames(df, sch) ==
    IF ~HasRatings(sch) THEN <<>>
    ELSE Concat([n \in 1..Len(PlayerOrder) |->
            LET group == SelectSeq(df, LAMBDA r : r.player_name_clean = PlayerOrder[n])
            IN  Concat([i \in 1..Len(group) |-> RecoveryEntry(group, i)])])

\* lines 69-70: pd.merge(df_filtered, recovery_df, how='left'): a row is
\* repeated once for every entry of its (player, season)
RecoveryMerge(df, rec) ==
    Concat([k \in 1..Len(df) |->
        LET own == SelectSeq(rec, LAMBDA e :
                       /\ e.player_name_clean = df[k].player_name_clean
                       /\ e.season_epl = df[k].season_epl)
        IN  IF own = <<>> THEN <<df[k] @@ [recovery_games |-> NaNF]>>
            ELSE [j \in 1..Len(own) |-> df[k] @@ [recovery_games |-> Frac(own[j].recovery_games, 1)]]])

\* lines 17-82
FeatureTable(df, sch) ==
    LET filtered == DateFilter(df)
        sorted == SortByPlayerDate([k \in 1..Len(filtered) |-> SeasonAndMinutes(filtered[k])]
                                     \o <<>>)
        rolled == WithInjuryBurden([i \in 1..Len(sorted) |-> Enrich(sorted, i)] \o <<>>)
    IN  RecoveryMerge(rolled, RecoveryGames(rolled, sch))

\* the script from read_csv to to_csv; an exception ends it before to_csv
FeatureEngineering ==
    /\ pc = "feature_engineering"
    /\ IF FeatureMissingColumn(schema) # ""
       THEN /\ raised' = FeatureMissingColumn(schema)
            /\ pc' = "failed"
            /\ fe' = fe
       ELSE /\ fe' = FeatureTable(merged, schema)
            /\ pc' = "stats_analysis"
            /\ raised' = raised
    /\ UNCHANGED <<matchlog, injuries, schema, dash, selection, merged, matches, episodes, ep_i, pre, post, rows>>

(***************************************************************************)
(* stats_analysis.py                                                       *)
(***************************************************************************)
\* line 28, read_csv(parse_dates=[...]), raises for a missing date column
StatsMissingColumn(sch) == IF sch = "stats_no_date" THEN "date" ELSE ""

\* lines 31-33: a missing player_name_clean column is created, filled with NaN
StatsFrame(df, sch) ==
    IF sch = "stats_no_player" THEN [k \in 1..Len(df) |-> [df[k] EXCEPT !.player_name_clean = NaN]]
    ELSE df

\* rate_per90 guarding against exactly zero minutes only
rate_per90_zero_only(numer, mins) ==
    IF mins = 0 THEN NaNF ELSE FloatDiv(numer * 90, mins)

\* lines 73-78: np.where(mins <= 0, nan, mins), then (numer / mins) * 90
rate_per90(numer, mins) == IF mins <= 0 THEN NaNF ELSE Frac(numer * 90, mins)

\* lines 64-70 and 80-81
MatchKey(r) == <<r.player_name_clean, r.date>>

MatchColumns(r) ==
    [player_name_clean |-> r.player_name_clean, player_name |-> r.player_name, date |-> r.date,
     position_type |-> r.position_type,
     minutes_played |-> ToNumericFill0(Frac(r.minutes_played, 1)),
     goals |-> ToNumericFill0(r.goals), assists |-> ToNumericFill0(r.assists),
     goals90 |-> rate_per90(ToNumericFill0(r.goals), ToNumericFill0(Frac(r.minutes_played, 1))),
     assists90 |-> rate_per90(ToNumericFill0(r.assists),
                              ToNumericFill0(Frac(r.minutes_played, 1)))]

\* UniqueMatches without drop_duplicates: the copies made by the join stay
UniqueMatches_keep_copies(df) ==
    LET cols == [k \in 1..Len(df) |-> MatchColumns(df[k])]
    IN  SortByPlayerDate(SelectSeq(cols, LAMBDA r : r.player_name_clean # NaN /\ notna(r.date)))

UniqueMatches(df) ==
    LET cols == [k \in 1..Len(df) |-> MatchColumns(df[k])]
        kept == SelectSeq(cols, LAMBDA r : r.player_name_clean # NaN /\ notna(r.date))
    IN  SortByPlayerDate(DropDuplicatesBy(kept, [k \in 1..Len(kept) |-> MatchKey(kept[k])]))

\* lines 84-90
EpisodeColumns(r) ==
    [player_name_clean |-> r.player_name_clean, player_name |-> r.player_name,
     injured_since |-> r.injured_since, injured_until |-> r.injured_until,
     position_type |-> r.position_type]

EpisodeDedupKey(e) == e

EpisodeSortKey(e) == NameRank(e.player_name_clean) * (MaxDate + 1) + e.injured_since

InjuryEpisodes(df) ==
    LET kept == SelectSeq(df, LAMBDA r : /\ notna(r.injured_since) /\ notna(r.injured_until)
                                         /\ r.player_name_clean # NaN)
        cols == [k \in 1..Len(kept) |-> EpisodeColumns(kept[k])]
        uniq == DropDuplicatesBy(cols, [k \in 1..Len(cols) |-> EpisodeDedupKey(cols[k])])
    IN  StableSortByKey(uniq, [k \in 1..Len(uniq) |-> EpisodeSortKey(uniq[k])])

\* line 102
PlayerMatches(ms, p) == SelectSeq(ms, LAMBDA r : r.player_name_clean = p)

\* PreWindow taking the first matches before the injury, not the last
PreWindow_head(pm, start) == HeadN(SelectSeq(pm, LAMBDA r : r.date < start), WIN_PRE)

\* line 107
PreWindow(pm, start) == TailN(SelectSeq(pm, LAMBDA r : r.date < start), WIN_PRE)

\* PostWindow counting a match on the return day
PostWindow_inclusive(pm, end) == HeadN(SelectSeq(pm, LAMBDA r : r.date >= end), WIN_POST)

\* line 109
PostWindow(pm, end) == HeadN(SelectSeq(pm, LAMBDA r : r.date > end), WIN_POST)

\* lines 114-120
agg(block) ==
    [n_matches |-> Len(block),
     minutes_mean |-> MeanSkipNa([k \in 1..Len(block) |-> Frac(block[k].minutes_played, 1)]),
     goals90_mean |-> MeanSkipNa([k \in 1..Len(block) |-> block[k].goals90]),
     assists90_mean |-> MeanSkipNa([k \in 1..Len(block) |-> block[k].assists90])]

\* Delta taken as pre minus post
Delta_reversed(x, y) == IF x = NaNF \/ y = NaNF THEN NaNF ELSE FracSub(y, x)

\* a difference of two floats is NaN when either is
Delta(x, y) == IF x = NaNF \/ y = NaNF THEN NaNF ELSE FracSub(x, y)

\* line 129
PrimaryPosition(pos) == IF pos = "MF/FW" THEN "MF" ELSE pos

\* lines 122-143
EpisodeRow(ep, prew, postw) ==
    LET pre_agg == agg(prew)
        post_agg == agg(postw)
    IN  [player_name_clean |-> ep.player_name_clean, player_name |-> ep.player_name,
         position_type |-> ep.position_type,
         primary_position |-> PrimaryPosition(ep.position_type),
         injured_since |-> ep.injured_since, injured_until |-> ep.injured_until,
         pre_n_matches |-> pre_agg.n_matches, pre_minutes_mean |-> pre_agg.minutes_mean,
         pre_goals90_mean |-> pre_agg.goals90_mean,
         pre_assists90_mean |-> pre_agg.assists90_mean,
         post_n_matches |-> post_agg.n_matches, post_minutes_mean |-> post_agg.minutes_mean,
         post_goals90_mean |-> post_agg.goals90_mean,
         post_assists90_mean |-> post_agg.assists90_mean,
         delta_minutes_mean |-> Delta(post_agg.minutes_mean, pre_agg.minutes_mean),
         delta_goals90_mean |-> Delta(post_agg.goals90_mean, pre_agg.goals90_mean),
         delta_assists90_mean |-> Delta(post_agg.assists90_mean, pre_agg.assists90_mean)]

\* lines 28-90: load the feature-engineered table, build matches and episodes
StatsLoad ==
    /\ pc = "stats_analysis"
    /\ IF StatsMissingColumn(schema) # ""
       THEN /\ raised' = StatsMissingColumn(schema)
            /\ pc' = "failed"
            /\ UNCHANGED <<matches, episodes, ep_i>>
       ELSE /\ matches' = UniqueMatches(StatsFrame(fe, schema))
            /\ episodes' = InjuryEpisodes(StatsFrame(fe, schema))
            /\ ep_i' = 1
            /\ pc' = "episode_loop"
            /\ raised' = raised
    /\ rows' = <<>>
    /\ UNCHANGED <<matchlog, injuries, schema, dash, selection, merged, fe, pre, post>>

\* lines 96-143: one iteration of the episode loop
EpisodeStep ==
    /\ pc = "episode_loop"
    /\ ep_i <= Len(episodes)
    /\ LET ep == episodes[ep_i]
           pm == PlayerMatches(matches, ep.player_name_clean)
           prew == PreWindow(pm, ep.injured_since)
           postw == PostWindow(pm, ep.injured_until)
       IN  IF pm = <<>> \/ isna(ep.injured_since) \/ isna(ep.injured_until)
           THEN UNCHANGED <<pre, post, rows>>
           ELSE /\ pre' = prew
                /\ post' = postw
                /\ rows' = IF prew = <<>> \/ postw = <<>> THEN rows
                           ELSE Append(rows, EpisodeRow(ep, prew, postw))
    /\ ep_i' = ep_i + 1
    /\ UNCHANGED <<matchlog, injuries, schema, dash, selection, raised, merged, fe, matches, episodes, pc>>

\* lines 145-146: the loop is over, episode_level is written
StatsSave ==
    /\ pc = "episode_loop"
    /\ ep_i > Len(episodes)
    /\ pc' = "done"
    /\ UNCHANGED <<matchlog, injuries, schema, dash, selection, raised, merged, fe, matches, episodes, ep_i, pre, post, rows>>

(***************************************************************************)
(* dashboard_app.py                                                        *)
(***************************************************************************)
\* every chart works on the rows before and after an injury
PerfRows(df) == SelectSeq(df, LAMBDA r : r.event_period \in {"pre", "post"})

\* Series.replace(0, np.nan)
ReplaceZero(v) == IF v = 0 THEN NaNF ELSE Frac(v, 1)

\* col / (minutes / 90) in floats, for a number cell col and a minutes cell
Per90(col, minutes) ==
    IF col = NaNF \/ minutes = NaNF THEN NaNF ELSE FloatDiv(col.num * 90, minutes.num)

\* lines 165-173, the global chart: minutes_played.replace(0, np.nan) / 90
GlobalPer90(r) ==
    [idx |-> r.idx, minutes_played |-> r.minutes_played,
     goals_per90 |-> Per90(r.goals, ReplaceZero(r.minutes_played)),
     assists_per90 |-> Per90(r.assists, ReplaceZero(r.minutes_played))]

\* lines 203-209, the impact tab: minutes_played / 90 as it is
ImpactPer90(r) ==
    [idx |-> r.idx, minutes_played |-> r.minutes_played,
     goals_per90 |-> Per90(r.goals, Frac(r.minutes_played, 1)),
     assists_per90 |-> Per90(r.assists, Frac(r.minutes_played, 1))]

\* lines 358-364, the club tab: minutes_played / 90 as it is
ClubPer90(r) ==
    [idx |-> r.idx, minutes_played |-> r.minutes_played,
     goals_per90 |-> Per90(r.goals, Frac(r.minutes_played, 1)),
     assists_per90 |-> Per90(r.assists, Frac(r.minutes_played, 1))]

\* the three charts drawn from the feature-engineered table
Dashboard ==
    /\ pc = "done"
    /\ LET perf_df == PerfRows(fe)
       IN  dash' = [global |-> [k \in 1..Len(perf_df) |-> GlobalPer90(perf_df[k])],
                    impact |-> [k \in 1..Len(perf_df) |-> ImpactPer90(perf_df[k])],
                    club |-> [k \in 1..Len(perf_df) |-> ClubPer90(perf_df[k])]]
    /\ pc' = "dashboard"
    /\ UNCHANGED <<matchlog, injuries, schema, selection, raised, merged, fe, matches, episodes,
                   ep_i, pre, post, rows>>

\* lines 14-21: usecols=needed_cols, the columns of a row that filter_large_csv
\* reads
NeededCols(r) ==
    [date |-> r.date, season_epl |-> r.season_epl, position_type |-> r.position_type,
     event_period |-> r.event_period, home_team_clean |-> r.home_team_clean,
     away_team_clean |-> r.away_team_clean, injury_days |-> r.injury_days,
     goals |-> r.goals, assists |-> r.assists, injured_since |-> r.injured_since,
     injured_until |-> r.injured_until, minutes_played |-> r.minutes_played]

\* the selections of the sidebar; an empty one is falsy in `if season_options:`
SeasonSelections == {{}, {<<2021, 2022>>}, {<<2020, 2021>>, <<2021, 2022>>}}

PositionSelections == {{}, {"FW"}, {"DF", "MF/FW"}}

EventPeriodSelections == {{}, {"pre", "post"}, {"during"}}

ClubSelections == {{}, {"z"}, {"x", "z"}}

\* line 12: the default chunk_size
DEFAULT_CHUNK_SIZE == 1000

ChunkSizes == 1..MaxChunk \cup {DEFAULT_CHUNK_SIZE}

\* Chunks without the last, shorter chunk of the file
RECURSIVE Chunks_full_only(_, _)
Chunks_full_only(df, size) ==
    IF Len(df) < size THEN <<>>
    ELSE <<SubSeq(df, 1, size)>> \o Chunks_full_only(SubSeq(df, size + 1, Len(df)), size)

\* line 23: pd.read_csv(chunksize=chunk_size), the file in pieces of chunk_size
\* rows, the last one shorter
RECURSIVE Chunks(_, _)
Chunks(df, size) ==
    IF df = <<>> THEN <<>>
    ELSE <<SubSeq(df, 1, Min(size, Len(df)))>>
           \o Chunks(SubSeq(df, Min(size, Len(df)) + 1, Len(df)), size)

\* Series.isin under `if options:`: an empty selection leaves the mask as it is
IsinIfSelected(v, options) == options = {} \/ v \in options

\* lines 24-32: the mask of one row
ChunkMask(r, seasons, positions, periods, clubs) ==
    /\ IsinIfSelected(r.season_epl, seasons)
    /\ IsinIfSelected(r.position_type, positions)
    /\ IsinIfSelected(r.event_period, periods)
    /\ (clubs = {} \/ r.home_team_clean \in clubs \/ r.away_team_clean \in clubs)

\* lines 22-37: the rows of every chunk that pass the mask, concatenated with a
\* new index
filter_large_csv(csv, seasons, positions, periods, clubs, chunk_size) ==
    LET chunks == Chunks([k \in 1..Len(csv) |-> NeededCols(csv[k])], chunk_size)
        filtered_chunks ==
            [c \in 1..Len(chunks) |->
                SelectSeq(chunks[c], LAMBDA r : ChunkMask(r, seasons, positions, periods, clubs))]
        all == Concat(filtered_chunks)
    IN  [i \in 1..Len(all) |-> [index |-> i - 1, row |-> all[i]]]

\* lines 53-65: the whole table filtered criterion after criterion; the rows
\* keep their index
filter_in_memory(df, seasons, positions, periods, clubs) ==
    LET indexed == [k \in 1..Len(df) |-> [index |-> k - 1, row |-> df[k]]]
        by_season == IF seasons = {} THEN indexed
                     ELSE SelectSeq(indexed, LAMBDA x : x.row.season_epl \in seasons)
        by_position == IF positions = {} THEN by_season
                       ELSE SelectSeq(by_season, LAMBDA x : x.row.position_type \in positions)
        by_period == IF periods = {} THEN by_position
                     ELSE SelectSeq(by_position, LAMBDA x : x.row.event_period \in periods)
    IN  IF clubs = {} THEN by_period
        ELSE SelectSeq(by_period, LAMBDA x : \/ x.row.home_team_clean \in clubs
                                             \/ x.row.away_team_clean \in clubs)

\* the dashboard has loaded the feature-engineered table (lines 40-44)
FilterInit ==
    /\ matchlog \in MatchLogs
    /\ injuries \in ProbeInjuries
    /\ schema = "plain"
    /\ merged = LeftMergeInjuries(matchlog, injuries)
    /\ fe = FeatureTable(merged, schema)
    /\ matches = <<>>
    /\ episodes = <<>>
    /\ ep_i = 0
    /\ pre = <<>>
    /\ post = <<>>
    /\ rows = <<>>
    /\ dash = <<>>
    /\ selection = <<>>
    /\ raised = ""
    /\ pc = "filter"

\* the sidebar selections are applied, by both filter functions
Filter ==
    /\ pc = "filter"
    /\ \E seasons \in SeasonSelections, positions \in PositionSelections,
          periods \in EventPeriodSelections, clubs \in ClubSelections, size \in ChunkSizes :
          selection' =
              [season_options |-> seasons, position_options |-> positions,
               event_period_options |-> periods, club_options |-> clubs, chunk_size |-> size,
               large |-> filter_large_csv(fe, seasons, positions, periods, clubs, size),
               memory |-> filter_in_memory(fe, seasons, positions, periods, clubs)]
    /\ pc' = "filtered"
    /\ UNCHANGED <<matchlog, injuries, schema, dash, raised, merged, fe, matches, episodes,
                   ep_i, pre, post, rows>>

FilterNext == Filter

SpecFilter == FilterInit /\ [][FilterNext]_vars

Next ==
    \/ Merge
    \/ FeatureEngineering
    \/ StatsLoad
    \/ EpisodeStep
    \/ StatsSave
    \/ Dashboard

Spec == Init /\ [][Next]_vars

(***************************************************************************)
(* Properties                                                              *)
(***************************************************************************)
FeatureDone == pc \in {"stats_analysis", "episode_loop", "done"}

\* feature_engineering.py has just written its table, which no later step
\* changes: the place to look at the table's rolling windows
FeatureWritten == pc = "stats_analysis"

\* the episode the loop handled last, once it has handled one
LastEpisode == episodes[ep_i - 1]

EpisodeHandled == pc \in {"episode_loop", "done"} /\ ep_i > 1

\* the match days of player p in the feature-engineered table
MatchDays(p) == {fe[k].date : k \in {j \in 1..Len(fe) : fe[j].player_name_clean = p}}

DaysBefore(ep) == {d \in MatchDays(ep.player_name_clean) : d < ep.injured_since}

DaysAfter(ep) == {d \in MatchDays(ep.player_name_clean) : d > ep.injured_until}

WindowDays(w) == {w[k].date : k \in 1..Len(w)}

\* C1: a row with both injury bounds is labelled with exactly one of pre, during,
\* post: during iff injured_since <= date <= injured_until (both ends included),
\* pre iff date < injured_since, post otherwise; a row that lacks a bound is
\* labelled null.
C1_EventPeriod ==
    FeatureDone =>
        \A k \in 1..Len(fe) :
            LET r == fe[k]
                inside == r.injured_since <= r.date /\ r.date <= r.injured_until
                before == r.date < r.injured_since
            IN  IF notna(r.injured_since) /\ notna(r.injured_until)
                THEN /\ r.event_period \in {"pre", "during", "post"}
                     /\ (r.event_period = "during") <=> inside
                     /\ (r.event_period = "pre") <=> before
                     /\ (r.event_period = "post") <=> (~inside /\ ~before)
                ELSE r.event_period = NaN

\* a table with a match on the first and on the last day of an injury, one
\* before it, one after it, and a row whose injury record lacks its start
C1_Witness ==
    /\ FeatureDone
    /\ \E k \in 1..Len(fe) : fe[k].event_period = "during" /\ fe[k].date = fe[k].injured_until
                               /\ fe[k].date > fe[k].injured_since
    /\ \E k \in 1..Len(fe) : fe[k].event_period = "during" /\ fe[k].date = fe[k].injured_since
    /\ \E k \in 1..Len(fe) : fe[k].event_period = "pre"
    /\ \E k \in 1..Len(fe) : fe[k].event_period = "post"
    /\ \E k \in 1..Len(fe) : fe[k].event_period = NaN /\ isna(fe[k].injured_since)
                               /\ notna(fe[k].injured_until)

\* an episode qualifies when its player has a match before it and one after it
Qualifies(ep) == DaysBefore(ep) # {} /\ DaysAfter(ep) # {}

EpisodeIdentity(r) ==
    [player_name_clean |-> r.player_name_clean, position_type |-> r.position_type,
     injured_since |-> r.injured_since, injured_until |-> r.injured_until]

\* C2: the episodes handled so far have produced one output row each, in order,
\* exactly for those with a non-empty pre-window and a non-empty post-window,
\* and the row carries the episode's player, position and bounds; the loop
\* runs to its end.
C2_RowIffBothWindows ==
    /\ pc \in {"episode_loop", "done"} =>
        LET handled == SubSeq(episodes, 1, ep_i - 1)
            due == SelectSeq(handled, Qualifies)
        IN  /\ Len(rows) = Len(due)
            /\ \A k \in 1..Len(rows) : EpisodeIdentity(rows[k]) = EpisodeIdentity(due[k])
    /\ pc = "done" => ep_i = Len(episodes) + 1

\* the run is over; one episode produced a row and another, whose player never
\* played again, was dropped for its empty post-window
C2_Witness ==
    /\ pc = "done"
    /\ Len(rows) >= 1
    /\ \E k \in 1..Len(episodes) : DaysBefore(episodes[k]) # {} /\ DaysAfter(episodes[k]) = {}

\* the run is over; one episode produced a row and another, which began before
\* its player's first match, was dropped for its empty pre-window
C2_WitnessNoPre ==
    /\ pc = "done"
    /\ Len(rows) >= 1
    /\ \E k \in 1..Len(episodes) : DaysBefore(episodes[k]) = {} /\ DaysAfter(episodes[k]) # {}

\* C3: the pre-window of the episode just handled holds min(5, n) matches of
\* its player, on distinct days before injured_since, and every qualifying day
\* left out is earlier than every day taken; the emitted row counts them.
C3_PreWindow ==
    EpisodeHandled =>
        LET ep == LastEpisode
            n == Cardinality(DaysBefore(ep))
        IN  /\ Len(pre) = Min(5, n)
            /\ Cardinality(WindowDays(pre)) = Len(pre)
            /\ WindowDays(pre) \subseteq DaysBefore(ep)
            /\ \A k \in 1..Len(pre) : pre[k].player_name_clean = ep.player_name_clean
            /\ \A d \in DaysBefore(ep) \ WindowDays(pre) : \A e \in WindowDays(pre) : d < e
            /\ Qualifies(ep) => rows[Len(rows)].pre_n_matches = Min(5, n)

\* an episode with more than five earlier matches, and its row emitted
C3_Witness ==
    /\ EpisodeHandled
    /\ Cardinality(DaysBefore(LastEpisode)) > 5
    /\ Qualifies(LastEpisode)
    /\ rows # <<>>
    /\ rows[Len(rows)].pre_n_matches = 5

\* an episode with exactly three earlier matches is kept, with pre_n_matches 3
C3_WitnessThree ==
    /\ EpisodeHandled
    /\ Cardinality(DaysBefore(LastEpisode)) = 3
    /\ rows # <<>>
    /\ rows[Len(rows)].pre_n_matches = 3

\* C4: the post-window of the episode just handled holds min(5, m) matches of
\* its player, on distinct days after injured_until (never on it), and every
\* qualifying day left out is later than every day taken.
C4_PostWindow ==
    EpisodeHandled =>
        LET ep == LastEpisode
            m == Cardinality(DaysAfter(ep))
        IN  /\ Len(post) = Min(5, m)
            /\ Cardinality(WindowDays(post)) = Len(post)
            /\ WindowDays(post) \subseteq DaysAfter(ep)
            /\ ep.injured_until \notin WindowDays(post)
            /\ \A k \in 1..Len(post) : post[k].player_name_clean = ep.player_name_clean
            /\ \A d \in DaysAfter(ep) \ WindowDays(post) : \A e \in WindowDays(post) : d > e

\* an episode with more than five later matches and a match on its return day
C4_Witness ==
    /\ EpisodeHandled
    /\ Cardinality(DaysAfter(LastEpisode)) > 5
    /\ LastEpisode.injured_until \in MatchDays(LastEpisode.player_name_clean)
    /\ Len(post) = 5

\* the position in fe of the row with index label i, the first one when the
\* recovery merge has repeated the row
FirstCopy(k) == \A j \in 1..(k - 1) : fe[j].idx # fe[k].idx

PosOfIdx(i) == CHOOSE k \in 1..Len(fe) : fe[k].idx = i /\ FirstCopy(k)

\* the rows of the anchor's player that come before position k in fe, each
\* at its first position and without the copies of the anchor itself
EarlierOfPlayer(k) ==
    {j \in 1..(k - 1) : /\ fe[j].player_name_clean = fe[k].player_name_clean
                        /\ fe[j].idx # fe[k].idx
                        /\ FirstCopy(j)}

\* C5 as stated: the rolling window of a row never holds the row itself, only
\* rows of the same player that come strictly before it.
C5_WindowExcludesAnchor ==
    FeatureWritten =>
        \A k \in 1..Len(fe) :
            \A n \in 1..Len(fe[k].window5) : PosOfIdx(fe[k].window5[n]) \in EarlierOfPlayer(k)

\* C5 amended: the rolling window of a row ends with the row itself; the rest,
\* at most four rows, are rows of the same player that come strictly before
\* it, and no row after the anchor is in it.
C5_WindowEndsAtAnchor ==
    FeatureWritten =>
        \A k \in 1..Len(fe) :
            LET w == fe[k].window5
            IN  /\ Len(w) >= 1
                /\ Len(w) <= 5
                /\ w[Len(w)] = fe[k].idx
                /\ \A n \in 1..(Len(w) - 1) : PosOfIdx(w[n]) \in EarlierOfPlayer(k)

\* a row whose window is full: four earlier rows of its player and itself
C5_Witness ==
    /\ FeatureWritten
    /\ \E k \in 1..Len(fe) :
          /\ Len(fe[k].window5) = 5
          /\ fe[k].window5[5] = fe[k].idx
          /\ Cardinality(EarlierOfPlayer(k)) > 4

\* the sum of minutes_played over a set of positions of fe
RECURSIVE MinutesOver(_)
MinutesOver(P) ==
    IF P = {} THEN 0
    ELSE LET j == CHOOSE x \in P : TRUE IN fe[j].minutes_played + MinutesOver(P \ {j})

\* the last min(k + 1, 5) rows of the anchor's player up to position k
LastFiveUpTo(k) ==
    LET own == EarlierOfPlayer(k) \cup {k}
    IN  {j \in own : Cardinality({i \in own : i > j}) < 5}

\* C6: at the k-th match row of a player (from 0, in date order) the workload
\* is the mean of minutes_played over exactly min(k + 1, 5) values of that
\* player, the consistency is null exactly when fewer than two values are in
\* the window, which is at k = 0 only, and the first row's workload is its
\* own minutes_played.
C6_WindowSizes ==
    FeatureWritten =>
        \A pos \in 1..Len(fe) :
            LET r == fe[pos]
                k == Cardinality(EarlierOfPlayer(pos))
                size == Min(k + 1, 5)
            IN  /\ Len(r.window5) = size
                /\ Cardinality(LastFiveUpTo(pos)) = size
                /\ r.minutes_workload_last5 = Frac(MinutesOver(LastFiveUpTo(pos)), size)
                /\ (r.form_consistency_last5 = NaNF) <=> (size < 2)
                /\ (size < 2) <=> (k = 0)
                /\ k = 0 => r.minutes_workload_last5 = Frac(r.minutes_played, 1)

\* a player with more than five rows: a null consistency on the first, a full
\* window of five on the sixth
C6_Witness ==
    /\ FeatureWritten
    /\ \E pos \in 1..Len(fe) :
          /\ Cardinality(EarlierOfPlayer(pos)) = 0
          /\ fe[pos].form_consistency_last5 = NaNF
          /\ fe[pos].minutes_played > 0
    /\ \E pos \in 1..Len(fe) :
          /\ Cardinality(EarlierOfPlayer(pos)) > 4
          /\ Len(fe[pos].window5) = 5
          /\ fe[pos].form_consistency_last5 # NaNF

\* rearrangements of the rows of a table
RotateLeft(s) == IF s = <<>> THEN s ELSE Tail(s) \o <<Head(s)>>

Riffle(s) ==
    SelectSeq([k \in 1..Len(s) |-> [at |-> k, row |-> s[k]]], LAMBDA x : x.at % 2 = 1)
      \o SelectSeq([k \in 1..Len(s) |-> [at |-> k, row |-> s[k]]], LAMBDA x : x.at % 2 = 0)

Rearrangements(s) == {Reverse(s), RotateLeft(s), [k \in 1..Len(s) |-> Riffle(s)[k].row]}

\* what the windows of player p hold, row by row in the table's order: the
\* anchor's day and the days in its window
WindowDayProfile(t, p) ==
    LET own == SelectSeq(t, LAMBDA r : r.player_name_clean = p)
    IN  [k \in 1..Len(own) |->
           [date |-> own[k].date,
            days |-> [n \in 1..Len(own[k].window5) |-> merged[own[k].window5[n]].date]]]

\* the same by row identity
WindowRowProfile(t, p) ==
    LET own == SelectSeq(t, LAMBDA r : r.player_name_clean = p)
    IN  [k \in 1..Len(own) |-> [idx |-> own[k].idx, window5 |-> own[k].window5]]

NoSameDayRows(p) ==
    \A j, k \in 1..Len(fe) :
        (fe[j].player_name_clean = p /\ fe[k].player_name_clean = p /\ fe[j].date = fe[k].date)
            => j = k

\* C7: a rolling window holds rows of one player only, and feeding the rows in
\* another order leaves every player's windows as they are: the same days in
\* every window, and the same rows when no two rows of the player share a day.
C7_WindowsPerPlayer ==
    pc = "stats_analysis" =>
        /\ \A k \in 1..Len(fe) : \A n \in 1..Len(fe[k].window5) :
              merged[fe[k].window5[n]].player_name_clean = fe[k].player_name_clean
        /\ \A other \in Rearrangements(merged) :
              LET t == FeatureTable(other, schema)
              IN  \A p \in {"a", "b"} :
                    /\ WindowDayProfile(t, p) = WindowDayProfile(fe, p)
                    /\ NoSameDayRows(p) => WindowRowProfile(t, p) = WindowRowProfile(fe, p)

\* the rows of two players alternate in the input, one of them has rows that
\* share a day, the other has none, and both have windows of several rows
C7_Witness ==
    /\ pc = "stats_analysis"
    /\ \E k \in 1..(Len(merged) - 2) :
          /\ merged[k].player_name_clean # merged[k + 1].player_name_clean
          /\ merged[k + 1].player_name_clean # merged[k + 2].player_name_clean
    /\ ~NoSameDayRows("a")
    /\ NoSameDayRows("b")
    /\ \E k \in 1..Len(fe) : fe[k].player_name_clean = "b" /\ Len(fe[k].window5) = 2
    /\ \E k \in 1..Len(fe) : fe[k].player_name_clean = "a" /\ Len(fe[k].window5) = 5

\* the injury records of player p, as the injury file gives them
InjuryRecordsOf(p) == {k \in 1..Len(injuries) : NameClean(injuries[k].player_name) = p}

\* C8: a match row whose day lies inside any injury record of its player
\* (injured_since <= date <= injured_until) is labelled during, whichever
\* record the row was joined with.
C8_DuringForAnyEpisode ==
    FeatureDone =>
        \A k \in 1..Len(fe) :
            (\E j \in InjuryRecordsOf(fe[k].player_name_clean) :
                /\ notna(injuries[j].injured_since)
                /\ notna(injuries[j].injured_until)
                /\ injuries[j].injured_since <= fe[k].date
                /\ fe[k].date <= injuries[j].injured_until)
            => fe[k].event_period = "during"

\* C9: the feature-engineered table holds at most one row, and so one
\* event_period, per (player_name_clean, date).
C9_OneRowPerMatch ==
    FeatureDone =>
        \A j, k \in 1..Len(fe) :
            (fe[j].player_name_clean = fe[k].player_name_clean /\ fe[j].date = fe[k].date)
                => j = k

EpisodeTriple(e) == <<e.player_name_clean, e.injured_since, e.injured_until>>

\* C10: the episode list holds at most one episode per (player_name_clean,
\* injured_since, injured_until), and the output at most one row per such
\* interval.
C10_OneEpisodePerInterval ==
    pc \in {"episode_loop", "done"} =>
        /\ \A j, k \in 1..Len(episodes) :
              EpisodeTriple(episodes[j]) = EpisodeTriple(episodes[k]) => j = k
        /\ \A j, k \in 1..Len(rows) :
              EpisodeTriple(rows[j]) = EpisodeTriple(rows[k]) => j = k

\* the statistics script has built its match table
StatsLoaded == pc \in {"episode_loop", "done", "dashboard"}

\* the match-log row a feature-engineered or match row was read from
RawRowOf(p, d) == CHOOSE k \in 1..Len(matchlog) :
                      NameClean(matchlog[k].player_name) = p /\ matchlog[k].date = d

\* C11: for a match with minutes_played > 0 the per-90 rate is
\* (count / minutes) * 90; for minutes_played <= 0, a negative entry and a
\* missing one coerced to 0 included, the rate is null, never 0 and never
\* infinite.
C11_RatePer90 ==
    StatsLoaded =>
        \A k \in 1..Len(matches) :
            LET m == matches[k]
                raw == matchlog[RawRowOf(m.player_name_clean, m.date)]
            IN  /\ raw.minutes_played = NaNF => m.minutes_played = 0
                /\ raw.minutes_played # NaNF => m.minutes_played = raw.minutes_played.num
                /\ m.minutes_played > 0 =>
                      /\ m.goals90 # NaNF /\ m.goals90.den > 0
                      /\ m.goals90.num * m.minutes_played = m.goals * 90 * m.goals90.den
                      /\ m.assists90 # NaNF /\ m.assists90.den > 0
                      /\ m.assists90.num * m.minutes_played = m.assists * 90 * m.assists90.den
                /\ m.minutes_played <= 0 => m.goals90 = NaNF /\ m.assists90 = NaNF

\* a match table with a goal in 30 minutes rated 3.0, a match of negative
\* minutes and a match whose missing minutes became 0, with a goal in it
C11_Witness ==
    /\ StatsLoaded
    /\ \E k \in 1..Len(matches) :
          /\ matches[k].minutes_played = 30 /\ matches[k].goals = 1
          /\ matches[k].goals90 = Frac(3, 1)
    /\ \E k \in 1..Len(matches) : matches[k].minutes_played < 0 /\ matches[k].goals90 = NaNF
    /\ \E k \in 1..Len(matches) :
          /\ matchlog[RawRowOf(matches[k].player_name_clean, matches[k].date)].minutes_played = NaNF
          /\ matches[k].minutes_played = 0 /\ matches[k].goals = 1
          /\ matches[k].goals90 = NaNF

\* the last episode handled has produced the last output row
RowEmitted == EpisodeHandled /\ pre # <<>> /\ post # <<>> /\ rows # <<>>

\* the matches of a window in which the player was on the pitch
Played(w) == {k \in 1..Len(w) : w[k].minutes_played > 0}

\* the sum over the matches S of a window of count * 90 / minutes
RECURSIVE RateSum(_, _, _)
RateSum(w, S, counts) ==
    IF S = {} THEN Frac(0, 1)
    ELSE LET k == CHOOSE x \in S : TRUE
         IN  FracAdd(Frac(counts[k] * 90, w[k].minutes_played), RateSum(w, S \ {k}, counts))

\* mean * n = sum, for a mean that is not null
IsMeanOf(mean, sum, n) ==
    mean # NaNF /\ n > 0 /\ mean.den > 0 /\ mean.num * n * sum.den = sum.num * mean.den

\* what C12 says of one window and its four aggregates in the output row
WindowAggregates(w, n_matches, minutes_mean, goals90_mean, assists90_mean) ==
    /\ n_matches = Len(w)
    /\ IsMeanOf(minutes_mean, Frac(SumSeq([k \in 1..Len(w) |-> w[k].minutes_played]), 1), Len(w))
    /\ (goals90_mean = NaNF) <=> (Played(w) = {})
    /\ (assists90_mean = NaNF) <=> (Played(w) = {})
    /\ Played(w) # {} =>
          /\ IsMeanOf(goals90_mean, RateSum(w, Played(w), [k \in 1..Len(w) |-> w[k].goals]),
                      Cardinality(Played(w)))
          /\ IsMeanOf(assists90_mean, RateSum(w, Played(w), [k \in 1..Len(w) |-> w[k].assists]),
                      Cardinality(Played(w)))

\* C12: in an output row, goals90_mean and assists90_mean of a window are the
\* means of the rates of exactly the window's matches with minutes_played > 0
\* and null exactly when the window has no such match; n_matches and
\* minutes_mean count every match of the window, those with 0 minutes too.
C12_WindowMeans ==
    RowEmitted =>
        LET r == rows[Len(rows)]
        IN  /\ WindowAggregates(pre, r.pre_n_matches, r.pre_minutes_mean,
                                r.pre_goals90_mean, r.pre_assists90_mean)
            /\ WindowAggregates(post, r.post_n_matches, r.post_minutes_mean,
                                r.post_goals90_mean, r.post_assists90_mean)

\* a row whose pre-window of five mixes played and unplayed matches, and whose
\* post-window is a single match without minutes: its mean rate is null while
\* it counts one match with a minutes mean of 0
C12_Witness ==
    /\ RowEmitted
    /\ Len(pre) = 5
    /\ Cardinality(Played(pre)) \in 1..4
    /\ rows[Len(rows)].pre_goals90_mean # NaNF
    /\ rows[Len(rows)].pre_goals90_mean # Frac(0, 1)
    /\ Played(post) = {}
    /\ rows[Len(rows)].post_n_matches = 1
    /\ rows[Len(rows)].post_minutes_mean = Frac(0, 1)
    /\ rows[Len(rows)].post_goals90_mean = NaNF

\* what C13 says of one delta: null when either side is, else post - pre
IsDelta(delta, postv, prev) ==
    /\ (delta = NaNF) <=> (postv = NaNF \/ prev = NaNF)
    /\ delta # NaNF => FracAdd(delta, prev) = postv

\* C13: each delta of an output row is its post value minus its pre value,
\* and is null when either value is null; the row is emitted all the same.
C13_Deltas ==
    /\ RowEmitted =>
          LET r == rows[Len(rows)]
          IN  /\ r.injured_since = LastEpisode.injured_since
              /\ r.injured_until = LastEpisode.injured_until
              /\ IsDelta(r.delta_minutes_mean, r.post_minutes_mean, r.pre_minutes_mean)
              /\ IsDelta(r.delta_goals90_mean, r.post_goals90_mean, r.pre_goals90_mean)
              /\ IsDelta(r.delta_assists90_mean, r.post_assists90_mean, r.pre_assists90_mean)
    /\ \A k \in 1..Len(rows) :
          /\ IsDelta(rows[k].delta_minutes_mean, rows[k].post_minutes_mean,
                     rows[k].pre_minutes_mean)
          /\ IsDelta(rows[k].delta_goals90_mean, rows[k].post_goals90_mean,
                     rows[k].pre_goals90_mean)
          /\ IsDelta(rows[k].delta_assists90_mean, rows[k].post_assists90_mean,
                     rows[k].pre_assists90_mean)

\* an emitted row with a null goals delta, for its null post mean, next to a
\* minutes delta that is negative, and another row whose goals delta is positive
C13_Witness ==
    /\ pc = "done"
    /\ \E k \in 1..Len(rows) :
          /\ rows[k].post_goals90_mean = NaNF /\ rows[k].pre_goals90_mean # NaNF
          /\ rows[k].delta_goals90_mean = NaNF
          /\ rows[k].delta_minutes_mean # NaNF /\ rows[k].delta_minutes_mean.num < 0
    /\ \E k \in 1..Len(rows) :
          rows[k].delta_goals90_mean # NaNF /\ rows[k].delta_goals90_mean.num > 0

\* the season C14 gives a date in month `month` of year `year`
ClaimedSeason(year, month) ==
    IF month \in 8..12 THEN <<year, year + 1>> ELSE <<year - 1, year>>

\* C14: a date in August to December of year Y is in season "Y/Y+1", a date in
\* January to July of year Y in season "Y-1/Y", and a null date has a null
\* season: on every row of the feature-engineered table, and for get_season
\* on every day of two years and on the null date.
C14_Season ==
    /\ FeatureDone =>
          \A k \in 1..Len(fe) :
              /\ DateMonth(fe[k].date) \in 1..12
              /\ fe[k].season_epl = ClaimedSeason(DateYear(fe[k].date), DateMonth(fe[k].date))
    /\ \A d \in 1..(MaxDate + 16) : get_season(d) = ClaimedSeason(DateYear(d), DateMonth(d))
    /\ get_season(NaT) = NaNSeason

\* matches on 1 July 2021, 1 August 2021 and 1 January 2022: the first in
\* season 2020/2021, the other two in 2021/2022
C14_Witness ==
    /\ FeatureDone
    /\ \E k \in 1..Len(fe) : /\ DateYear(fe[k].date) = 2021 /\ DateMonth(fe[k].date) = 7
                             /\ fe[k].season_epl = <<2020, 2021>>
    /\ \E k \in 1..Len(fe) : /\ DateYear(fe[k].date) = 2021 /\ DateMonth(fe[k].date) = 8
                             /\ fe[k].season_epl = <<2021, 2022>>
    /\ \E k \in 1..Len(fe) : /\ DateYear(fe[k].date) = 2022 /\ DateMonth(fe[k].date) = 1
                             /\ fe[k].season_epl = <<2021, 2022>>

\* C15 as stated: no episode whose injured_until is earlier than its
\* injured_since is aggregated or reaches the episode-level output.
C15_EpisodeBoundsOrdered ==
    /\ \A k \in 1..Len(rows) : rows[k].injured_until >= rows[k].injured_since
    /\ RowEmitted => LastEpisode.injured_until >= LastEpisode.injured_since

\* the match table when the injury file is empty: what the scripts make of
\* the match log alone
MatchesAlone == UniqueMatches(FeatureTable(LeftMergeInjuries(matchlog, <<>>), "plain"))

\* the summary of an episode with the identity and bounds of row r, computed
\* from the match table ms
SummaryAlone(r, ms) ==
    EpisodeRow(r, PreWindow(PlayerMatches(ms, r.player_name_clean), r.injured_since),
               PostWindow(PlayerMatches(ms, r.player_name_clean), r.injured_until))

Overlap(x, y) == x.injured_since <= y.injured_until /\ y.injured_since <= x.injured_until

\* C16: the row of an episode is determined by the episode's own bounds and
\* the player's match list, whatever other injury records the player has;
\* episodes are neither merged nor split: when the run is over there is one
\* row per episode with two non-empty windows, overlapping or not.
C16_EpisodesIndependent ==
    pc = "done" =>
        /\ LET ms == MatchesAlone
           IN  \A k \in 1..Len(rows) : rows[k] = SummaryAlone(rows[k], ms)
        /\ Len(rows) = Len(SelectSeq(episodes, Qualifies))
        /\ \A k \in 1..Len(episodes) :
              Qualifies(episodes[k]) =>
                  \E j \in 1..Len(rows) : EpisodeIdentity(rows[j]) = EpisodeIdentity(episodes[k])

\* two overlapping episodes of one player, one inside the other, each with its
\* own row and its own pre-window size
C16_Witness ==
    /\ pc = "done"
    /\ \E j, k \in 1..Len(rows) :
          /\ rows[j].player_name_clean = rows[k].player_name_clean
          /\ rows[j].injured_since < rows[k].injured_since
          /\ rows[k].injured_until < rows[j].injured_until
          /\ Overlap(rows[j], rows[k])
          /\ rows[j].pre_n_matches < rows[k].pre_n_matches
          /\ rows[j].post_minutes_mean # rows[k].post_minutes_mean

\* the rows of the merged table without a match date, by index label
UndatedRows == {k \in 1..Len(merged) : isna(merged[k].date)}

\* C17: a row without a match date is in no rolling window of
\* feature_engineering and in no pre- or post-window of stats_analysis, and
\* it stops nothing: no script fails over it, and every dated row is in the
\* feature-engineered table.
C17_UndatedRowsExcluded ==
    /\ FeatureDone =>
          /\ \A k \in 1..Len(fe) :
                /\ notna(fe[k].date)
                /\ \A n \in 1..Len(fe[k].window5) : fe[k].window5[n] \notin UndatedRows
          /\ \A i \in 1..Len(merged) :
                i \notin UndatedRows => \E k \in 1..Len(fe) : fe[k].idx = i
    /\ StatsLoaded =>
          /\ \A k \in 1..Len(matches) : notna(matches[k].date)
          /\ \A k \in 1..Len(pre) : notna(pre[k].date)
          /\ \A k \in 1..Len(post) : notna(post[k].date)
    /\ pc = "failed" => schema \notin {"plain", "ratings"}
    /\ schema \in {"plain", "ratings"} => raised = ""

\* a finished run over a table with an undated row of a player whose other two
\* matches make the windows of an emitted episode row
C17_Witness ==
    /\ pc = "done"
    /\ schema = "plain"
    /\ \E i \in UndatedRows :
          \E k \in 1..Len(rows) :
              /\ rows[k].player_name_clean = merged[i].player_name_clean
              /\ rows[k].pre_n_matches = 1 /\ rows[k].post_n_matches = 1
    /\ \E k \in 1..Len(fe) : Len(fe[k].window5) = 2 /\ merged[fe[k].idx].player_name_clean = "b"

\* the required column the schema's file lacks, "" when it lacks none
AbsentColumn ==
    IF schema \in {"fe_no_date", "stats_no_date"} THEN "date"
    ELSE IF schema \in {"fe_no_player", "stats_no_player"} THEN "player_name_clean"
    ELSE ""

\* C18 as stated: when the file a script reads lacks the date or the player
\* column, the script fails with an error naming that column before it has
\* processed a row; it never runs on to write an output.
C18_MissingColumnFailsFast ==
    /\ schema \in {"fe_no_date", "fe_no_player"} =>
          /\ pc \in {"merge", "feature_engineering", "failed"}
          /\ fe = <<>>
    /\ schema \in {"stats_no_date", "stats_no_player"} =>
          /\ pc \in {"merge", "feature_engineering", "stats_analysis", "failed"}
          /\ matches = <<>> /\ episodes = <<>> /\ rows = <<>>
    /\ pc = "failed" => raised = AbsentColumn /\ raised # ""

\* the copies in fe of the merged row with index label i
CopiesOf(i) == {k \in 1..Len(fe) : fe[k].idx = i}

\* C19 as stated: the feature-engineered table has exactly one row for each
\* input row with a match date, with or without the rating columns.
C19_OneRowPerInputRow ==
    FeatureDone =>
        /\ Len(fe) = Cardinality({i \in 1..Len(merged) : notna(merged[i].date)})
        /\ \A i \in 1..Len(merged) :
              Cardinality(CopiesOf(i)) = (IF notna(merged[i].date) THEN 1 ELSE 0)

\* the rates of a chart table are null on its rows without minutes
NullWithoutMinutes(table) ==
    \A k \in 1..Len(table) :
        table[k].minutes_played = 0 =>
            table[k].goals_per90 = NaNF /\ table[k].assists_per90 = NaNF

\* C20 as stated: every per-90 rate of a row with minutes_played = 0 is null,
\* in the match table of stats_analysis and in the three charts of the
\* dashboard.
C20_NullRateWithoutMinutes ==
    /\ StatsLoaded =>
          \A k \in 1..Len(matches) :
              matches[k].minutes_played = 0 =>
                  matches[k].goals90 = NaNF /\ matches[k].assists90 = NaNF
    /\ pc = "dashboard" =>
          /\ NullWithoutMinutes(dash.global)
          /\ NullWithoutMinutes(dash.impact)
          /\ NullWithoutMinutes(dash.club)

\* the distinct injury intervals of player p with both bounds, as the injury
\* file gives them
InjuryIntervalsOf(p) ==
    {<<injuries[k].injured_since, injuries[k].injured_until>> : k \in
        {j \in InjuryRecordsOf(p) : notna(injuries[j].injured_since)
                                     /\ notna(injuries[j].injured_until)}}

\* the days of a set of intervals, each counted once
RECURSIVE DaysMissed(_)
DaysMissed(S) ==
    IF S = {} THEN 0
    ELSE LET x == CHOOSE y \in S : TRUE IN (x[2] - x[1]) + DaysMissed(S \ {x})

\* C21 as stated: injury_burden_days of a row is the sum of
\* injured_until - injured_since over the distinct injury records of the
\* row's player, each counted once, however many match rows of the season
\* carry the record.
C21_BurdenCountsRecordOnce ==
    FeatureDone =>
        \A k \in 1..Len(fe) :
            fe[k].injury_burden_days = DaysMissed(InjuryIntervalsOf(fe[k].player_name_clean))

\* the distinct match days of the row's player before the day of fe[k]
EarlierDays(k) ==
    {fe[j].date : j \in {i \in 1..Len(fe) : /\ fe[i].player_name_clean = fe[k].player_name_clean
                                              /\ fe[i].date < fe[k].date}}

\* the match days in the rolling window of fe[k]
WindowMatchDays(k) == {merged[fe[k].window5[n]].date : n \in 1..Len(fe[k].window5)}

\* C22 as stated: the rolling window of a match row spans min(k + 1, 5)
\* distinct matches of its player, k being the number of the player's earlier
\* distinct match days: the copies of a match made by the injury join take no
\* more than one slot of the window.
C22_WindowSpansDistinctMatches ==
    FeatureWritten =>
        \A k \in 1..Len(fe) :
            Cardinality(WindowMatchDays(k)) = Min(Cardinality(EarlierDays(k)) + 1, 5)

\* C23 as stated: for every emitted episode row the pre-window and the
\* post-window have no match in common and every match of the pre-window is
\* dated before every match of the post-window.
C23_WindowsDisjointOrdered ==
    RowEmitted =>
        /\ WindowDays(pre) \cap WindowDays(post) = {}
        /\ \A i \in 1..Len(pre) : \A j \in 1..Len(post) : pre[i].date < post[j].date

\* C24: on every row with a match date, is_during_injury of merge.py is true
\* exactly when get_event_period of feature_engineering gives "during" for the
\* row's date and bounds, and false when the period is pre, post or null.
\* The flag on a row of the feature-engineered table is the one merge.py set,
\* the period the one feature_engineering computed from the same row.
C24_FlagsAgree ==
    FeatureDone =>
        \A k \in 1..Len(fe) :
            /\ fe[k].is_during_injury <=> (fe[k].event_period = "during")
            /\ fe[k].event_period \in {"pre", "post", NaN} => ~fe[k].is_during_injury

\* rows on the first and on the last day of their injury with both flags set,
\* and rows before, after and without a full injury record with neither
C24_Witness ==
    /\ FeatureDone
    /\ \E k \in 1..Len(fe) : /\ fe[k].date = fe[k].injured_since /\ fe[k].is_during_injury
                             /\ fe[k].date < fe[k].injured_until
                             /\ fe[k].event_period = "during"
    /\ \E k \in 1..Len(fe) : /\ fe[k].date = fe[k].injured_until /\ fe[k].is_during_injury
                             /\ fe[k].date > fe[k].injured_since
                             /\ fe[k].event_period = "during"
    /\ \E k \in 1..Len(fe) : fe[k].event_period = "pre" /\ ~fe[k].is_during_injury
    /\ \E k \in 1..Len(fe) : fe[k].event_period = "post" /\ ~fe[k].is_during_injury
    /\ \E k \in 1..Len(fe) : /\ fe[k].event_period = NaN /\ ~fe[k].is_during_injury
                             /\ notna(fe[k].injured_since) /\ isna(fe[k].injured_until)

\* what the selections ask of a row; an empty selection asks nothing
Selected(r) ==
    /\ selection.season_options # {} => r.season_epl \in selection.season_options
    /\ selection.position_options # {} => r.position_type \in selection.position_options
    /\ selection.event_period_options # {} => r.event_period \in selection.event_period_options
    /\ selection.club_options # {} =>
          (r.home_team_clean \in selection.club_options
             \/ r.away_team_clean \in selection.club_options)

\* C25: whatever the chunk size and the selections, filter_large_csv returns
\* the rows that filter_in_memory returns, in the same order (on the columns
\* it reads, and with a new index): the rows of the table that meet every
\* criterion with a non-empty selection, in the table's order.
C25_ChunkingKeepsResult ==
    pc = "filtered" =>
        /\ Len(selection.large) = Len(selection.memory)
        /\ \A i \in 1..Len(selection.memory) :
              /\ selection.large[i].row = NeededCols(selection.memory[i].row)
              /\ selection.large[i].index = i - 1
              /\ selection.memory[i].row = fe[selection.memory[i].index + 1]
              /\ i > 1 => selection.memory[i - 1].index < selection.memory[i].index
        /\ \A k \in 1..Len(fe) :
              Selected(fe[k]) <=> \E i \in 1..Len(selection.memory) :
                                      selection.memory[i].index = k - 1

\* a table of an odd number of rows read in chunks of two, with a season and a
\* club selected and the other two criteria left empty: some rows pass, among
\* them the last row of the table, alone in its chunk, and some do not
C25_Witness ==
    /\ pc = "filtered"
    /\ selection.chunk_size = 2
    /\ Len(fe) % 2 = 1
    /\ selection.season_options # {} /\ selection.club_options # {}
    /\ selection.position_options = {} /\ selection.event_period_options = {}
    /\ Len(selection.large) \in 2..(Len(fe) - 1)
    /\ selection.memory[Len(selection.memory)].index = Len(fe) - 1
    /\ selection.memory[1].index > 0

============================================================================
